---- MODULE Spec2Model ----
(***************************************************************************)
(* Session routing layer of cheating-daddy: the unified IPC handlers       *)
(* (src/src/unified-handlers.js) dispatching to the OpenRouter adapter     *)
(* (src/src/openrouter.js) and to the Gemini streaming adapter, and the     *)
(* Grok module that follows them in unified-handlers.js.                   *)
(*                                                                         *)
(* Every handler is an async function.  A handler invocation is a "call"  *)
(* with a program counter; one action runs the code between two awaits.   *)
(***************************************************************************)
EXTENDS Integers, Sequences, FiniteSets

\* ------------------------------------------------------------- bounds
MaxCalls == 2       \* handler invocations that may be pending at once
MaxHandles == 2     \* OpenRouter session objects created in a run
MaxGHandles == 2    \* Gemini session objects created in a run
MaxTurns == 2       \* turns a conversation history may hold
MaxClock == 2       \* values Date.now() takes
MaxGrokSessions == 2 \* session ids the Grok backend hands out

Calls == 1..MaxCalls
Handles == 1..MaxHandles
GHandles == 1..MaxGHandles
NoHandle == 0       \* a slot's null

\* ------------------------------------------------------------- JavaScript values
JSUndef == [t |-> "undefined", s |-> <<>>]
JSNull == [t |-> "null", s |-> <<>>]
JSNum == [t |-> "number", s |-> <<>>]       \* a non-zero number
JSArr == [t |-> "object", s |-> <<>>]       \* an array or object (truthy, no trim)
JSStr(s) == [t |-> "string", s |-> s]

IsString(v) == v.t = "string"
\* !v is false
Truthy(v) == v.t \in {"number", "object"} \/ (v.t = "string" /\ v.s # <<>>)

RECURSIVE TrimLeft(_)
TrimLeft(s) == IF s # <<>> /\ Head(s) = " " THEN TrimLeft(Tail(s)) ELSE s
RECURSIVE TrimRight(_)
TrimRight(s) ==
    IF s # <<>> /\ s[Len(s)] = " " THEN TrimRight(SubSeq(s, 1, Len(s) - 1)) ELSE s
\* String.prototype.trim
Trim(s) == TrimRight(TrimLeft(s))

RECURSIVE Digits(_)
Digits(n) == IF n < 10 THEN <<n>> ELSE Digits(n \div 10) \o <<n % 10>>
\* Number.prototype.toString, as the sequence of decimal digits
NumberToString(n) == JSStr(Digits(n))

\* String.prototype.toLowerCase on the values the setting takes
ToLowerCase(str) == IF str = "OpenRouter" THEN "openrouter" ELSE str

\* ------------------------------------------------------------- inputs
ModelTypeSettings == {"null", "gemini", "openrouter", "OpenRouter", "throws"}
ModelSettings == {"null", "m1", "throws"}
DefaultModel == "anthropic/claude-3.5-sonnet"
ApiKeys == {JSUndef, JSNum, JSStr(<<>>), JSStr(<<" ">>), JSStr(<<" ", "k">>)}
Texts == {JSUndef, JSNum, JSStr(<<>>), JSStr(<<" ">>), JSStr(<<"a", " ">>)}
\* a base64 string, written as blocks of 50 characters
Blocks(n) == [i \in 1..n |-> "x50"]
Base64Bytes(s) == (Len(s) * 50 * 3) \div 4
ImageDatas == {JSUndef, JSNum, JSStr(<<>>), JSStr(Blocks(2)), JSStr(Blocks(27))}
AudioDatas == {JSUndef, JSStr(Blocks(2))}
DirectTexts == {JSStr(<<>>), JSStr(<<"a">>)}
Contents == {JSUndef, JSStr(<<>>), JSStr(<<" ">>), JSStr(<<"b", " ">>), JSArr}
ErrKinds == {"network", "vendor", "nomsg"}
\* what axios.post settles with: a rejection, or a response whose
\* data.choices[0].message.content is `content`
Responses ==
    {[kind |-> "error", err |-> k, content |-> JSUndef] : k \in ErrKinds}
    \cup {[kind |-> "ok", err |-> "", content |-> v] : v \in Contents}
\* a timeout, a response without text and a response with text
PlainResponses ==
    {r \in Responses : r.err = "network" \/ r.content \in {JSUndef, JSStr(<<"b", " ">>)}}

\* ------------------------------------------------------------- results
Ok == [success |-> TRUE, error |-> ""]
Fail(msg) == [success |-> FALSE, error |-> msg]
ErrInvalidKey == "Invalid API key provided"
ErrInvalidText == "Invalid text message"
ErrInvalidImage == "Invalid image data"
ErrInvalidAudio == "Invalid audio data"
ErrInvalidMic == "Invalid microphone audio data"
ErrNoOpenRouter == "No active OpenRouter session"
ErrNoGemini == "No active Gemini session"
ErrInitOpenRouter == "Failed to initialize OpenRouter session"
ErrInitGemini == "Failed to initialize Gemini session"
ErrAudioUnsupported == "Audio input not supported with OpenRouter model."
ErrImageSmall == "Image buffer too small"
ErrThrown == "thrown error message"
ErrSessionClosed == "session is not active"
ErrNotAFunction == "aiResponse.trim is not a function"
ErrUnknown == "Unknown error"
ErrNoGrok == "No active Grok session"
ErrDestructure == "Cannot destructure property 'data' of 'undefined' as it is undefined."
ImagePlaceholder == <<"[Image sent]">>
MinImageBytes == 1000

VARIABLES
    calls,                  \* the handler invocations that are suspended at an await
    openRouterSessionRef,   \* .current of the OpenRouter slot: a handle or NoHandle
    geminiSessionRef,       \* .current of the Gemini slot: a handle or NoHandle
    heap,                   \* the OpenRouter session objects
    gheap,                  \* the Gemini session objects
    currentSessionId,       \* openrouter.js conversation log
    conversationHistory,
    isInitializingSession,
    reconnectionAttempts,
    lastSessionParams,
    geminiInitializing,     \* gemini adapter: an initialize is in progress
    geminiAttempts,         \* gemini adapter: reconnection attempts made
    geminiStatus,           \* gemini adapter: state of the reconnection supervisor
    geminiNotice,           \* gemini adapter: the returned update-status it pushed
    reconnectCalls,         \* reconnection initializes since the returned fresh one
    clock,                  \* Date.now()
    grok,                   \* the Grok module's variables (unified-handlers.js 427-454)
    returned                \* the handler invocation that returned in this step, if any

vars == <<calls, openRouterSessionRef, geminiSessionRef, heap, gheap,
          currentSessionId, conversationHistory, isInitializingSession,
          reconnectionAttempts, lastSessionParams, geminiInitializing,
          geminiAttempts, geminiStatus, geminiNotice, reconnectCalls, clock, grok, returned>>

orVars == <<currentSessionId, conversationHistory, isInitializingSession,
            reconnectionAttempts, lastSessionParams>>
slotVars == <<openRouterSessionRef, geminiSessionRef, heap, gheap>>
gemVars == <<geminiInitializing, geminiAttempts, geminiStatus, geminiNotice, reconnectCalls>>

\* ------------------------------------------------------------- records
NoTurn == [timestamp |-> 0, transcription |-> <<>>, ai_response |-> <<>>]
\* a notification pushed to the renderer
Notify(ch, data) == [ch |-> ch, data |-> data, sessionId |-> JSNull, turn |-> NoTurn, len |-> 0]
FreeSession == [alloc |-> FALSE, active |-> FALSE, apiKey |-> JSUndef, model |-> ""]
NoParams == [set |-> FALSE, apiKey |-> JSNull, model |-> ""]
\* the Grok module's lastSessionParams when null
NoGrokParams == [set |-> FALSE, apiKey |-> JSNull]
\* the Grok module after it is loaded.  grokSessionRef is the handlers' reference,
\* globalRef is global.grokSessionRef; pending is the initializeGrokSession call
\* suspended at its request, arg the apiKey that call was given, entry and found
\* the reconnectionAttempts and the lastSessionParams that call found, and ret what
\* the initialize-grok handler returned in this step
GrokInit ==
    [isInitializingSession |-> FALSE, reconnectionAttempts |-> 0,
     lastSessionParams |-> NoGrokParams, currentSessionId |-> JSNull,
     conversationHistory |-> <<>>, grokSessionRef |-> 0, globalRef |-> 0,
     pending |-> "none", arg |-> JSUndef, entry |-> 0, found |-> NoGrokParams,
     ret |-> "none"]
\* a handler invocation.  sessionId and history are the data of its result; seen is
\* the currentSessionId the invocation found when it was called
IdleCall ==
    [op |-> "none", pc |-> "idle", arg |-> JSUndef, mt |-> "", h |-> NoHandle,
     res |-> Fail(""), reqs |-> 0, appended |-> 0, out |-> <<>>, overlap |-> FALSE,
     sessionId |-> JSUndef, history |-> <<>>, seen |-> JSUndef]
NewCall(op, arg, mt) == [IdleCall EXCEPT !.op = op, !.pc = "start", !.arg = arg, !.mt = mt]
Finish(cr, res) == [cr EXCEPT !.pc = "done", !.res = res, !.arg = JSUndef]
\* the handler threw outside its try block: its promise is rejected
Reject(cr, msg) == [cr EXCEPT !.pc = "rejected", !.res = Fail(msg), !.arg = JSUndef]
\* the record of a new pending invocation goes to the first unused place
Free(c) == calls[c].pc = "idle" /\ \A k \in Calls : k < c => calls[k].pc # "idle"
\* a handler ran up to its first await (it is pending) or to its return
Deliver(cr) ==
    IF cr.pc \in {"done", "rejected"}
    THEN returned' = cr /\ UNCHANGED calls
    ELSE /\ \E c \in Calls : Free(c) /\ calls' = [calls EXCEPT ![c] = cr]
         /\ returned' = IdleCall
\* a pending invocation returned
Return(c, cr) == calls' = [calls EXCEPT ![c] = IdleCall] /\ returned' = cr

SendOps == {"text", "image", "dtext", "dimage"}
AudioOps == {"audio", "mic"}
Pending(ops) == {c \in Calls : calls[c].op \in ops /\ calls[c].pc # "idle"}
Allocated == {h \in Handles : heap[h].alloc}
GAllocated == {g \in GHandles : gheap[g] # "free"}
\* the object a `new` evaluates to: the next unused handle
NewHandle == CHOOSE h \in Handles : ~heap[h].alloc /\ \A k \in Handles : k < h => heap[k].alloc
NewGHandle == CHOOSE g \in GHandles : gheap[g] = "free" /\ \A k \in GHandles : k < g => gheap[k] # "free"
\* room left for every pending initialize to create its session object
RoomForInit ==
    /\ Cardinality(Allocated) + Cardinality(Pending({"init"})) < MaxHandles
    /\ Cardinality(GAllocated) + Cardinality(Pending({"init"})) < MaxGHandles
\* room left for every pending send to append its turn
RoomForSend == Len(conversationHistory) + Cardinality(Pending(SendOps)) < MaxTurns

\* ------------------------------------------------------------- provider selection
\* getCurrentModelType: the renderer's setting, lower-cased; gemini when unset or
\* when the renderer cannot be asked
GetCurrentModelType(raw) ==
    IF raw = "throws" THEN "gemini"
    ELSE ToLowerCase(IF raw = "null" THEN "gemini" ELSE raw)

\* localStorage.getItem('openRouterModel') || 'anthropic/claude-3.5-sonnet'
\* the providers getCurrentModelType can answer
ModelTypes == {GetCurrentModelType(raw) : raw \in ModelTypeSettings}

ReadOpenRouterModel(raw) == IF raw = "null" THEN DefaultModel ELSE raw

\* ------------------------------------------------------------- conversation log
\* initializeNewSession: the log after it, as <<currentSessionId, conversationHistory>>
InitializeNewSession == <<NumberToString(clock), <<>>>>

\* saveConversationTurn keeping the new turn only
SaveConversationTurn_Overwrites(sid, hist, transcription, aiResponse) ==
    LET log == IF ~Truthy(sid) THEN InitializeNewSession ELSE <<sid, hist>>
        turn == [timestamp |-> clock,
                 transcription |-> Trim(transcription),
                 ai_response |-> Trim(aiResponse)]
    IN  [sid |-> log[1], hist |-> <<turn>>, turn |-> turn]

\* saveConversationTurn without the creation of a session when there is none
SaveConversationTurn_NoSession(sid, hist, transcription, aiResponse) ==
    LET turn == [timestamp |-> clock,
                 transcription |-> Trim(transcription),
                 ai_response |-> Trim(aiResponse)]
    IN  [sid |-> sid, hist |-> Append(hist, turn), turn |-> turn]

\* saveConversationTurn putting the new turn in front
SaveConversationTurn_Prepends(sid, hist, transcription, aiResponse) ==
    LET log == IF ~Truthy(sid) THEN InitializeNewSession ELSE <<sid, hist>>
        turn == [timestamp |-> clock,
                 transcription |-> Trim(transcription),
                 ai_response |-> Trim(aiResponse)]
    IN  [sid |-> log[1], hist |-> <<turn>> \o log[2], turn |-> turn]

\* saveConversationTurn with its two arguments exchanged
SaveConversationTurn_Swapped(sid, hist, transcription, aiResponse) ==
    LET log == IF ~Truthy(sid) THEN InitializeNewSession ELSE <<sid, hist>>
        turn == [timestamp |-> clock,
                 transcription |-> Trim(aiResponse),
                 ai_response |-> Trim(transcription)]
    IN  [sid |-> log[1], hist |-> Append(log[2], turn), turn |-> turn]

\* saveConversationTurn: the log after it and the turn it pushed
SaveConversationTurn(sid, hist, transcription, aiResponse) ==
    LET log == IF ~Truthy(sid) THEN InitializeNewSession ELSE <<sid, hist>>
        turn == [timestamp |-> clock,
                 transcription |-> Trim(transcription),
                 ai_response |-> Trim(aiResponse)]
    IN  [sid |-> log[1], hist |-> Append(log[2], turn), turn |-> turn]

\* the save-conversation-turn notification with the history as it was before the push
SaveNotification_StaleHistory(saved) ==
    [ch |-> "save-conversation-turn", data |-> JSNull, sessionId |-> saved.sid,
     turn |-> saved.turn, len |-> Len(saved.hist) - 1]

\* the save-conversation-turn notification: fullHistory is conversationHistory itself,
\* of which the notification records the length
SaveNotification(saved) ==
    [ch |-> "save-conversation-turn", data |-> JSNull, sessionId |-> saved.sid,
     turn |-> saved.turn, len |-> Len(saved.hist)]

\* ------------------------------------------------------------- initialize
\* the apiKey check without its trim test
InvalidApiKey_NoTrim(apiKey) == ~Truthy(apiKey) \/ ~IsString(apiKey)

\* initialize-model: the apiKey check
InvalidApiKey(apiKey) ==
    ~Truthy(apiKey) \/ ~IsString(apiKey) \/ Len(Trim(apiKey.s)) = 0

\* initializeOpenRouterSession without its tests of isReconnection
InitializeOpenRouterSession_AlwaysFresh(apiKey, model, isReconnection) ==
    IF isInitializingSession
    THEN [busy |-> TRUE, params |-> lastSessionParams, attempts |-> reconnectionAttempts,
          sid |-> currentSessionId, hist |-> conversationHistory,
          session |-> FreeSession, out |-> <<>>]
    ELSE [busy |-> FALSE,
          params |-> [set |-> TRUE, apiKey |-> apiKey, model |-> model],
          attempts |-> 0,
          sid |-> InitializeNewSession[1], hist |-> InitializeNewSession[2],
          session |-> [alloc |-> TRUE, active |-> TRUE, apiKey |-> apiKey, model |-> model],
          out |-> <<Notify("session-initializing", JSStr(<<"true">>)),
                    Notify("session-initializing", JSStr(<<"false">>)),
                    Notify("update-status", JSStr(<<"initialized">>))>>]

\* initializeOpenRouterSession: what the call leaves behind and returns
InitializeOpenRouterSession(apiKey, model, isReconnection) ==
    IF isInitializingSession
    THEN [busy |-> TRUE, params |-> lastSessionParams, attempts |-> reconnectionAttempts,
          sid |-> currentSessionId, hist |-> conversationHistory,
          session |-> FreeSession, out |-> <<>>]
    ELSE LET log == IF isReconnection THEN <<currentSessionId, conversationHistory>>
                    ELSE InitializeNewSession
         IN [busy |-> FALSE,
             params |-> IF isReconnection THEN lastSessionParams
                        ELSE [set |-> TRUE, apiKey |-> apiKey, model |-> model],
             attempts |-> IF isReconnection THEN reconnectionAttempts ELSE 0,
             sid |-> log[1], hist |-> log[2],
             session |-> [alloc |-> TRUE, active |-> TRUE, apiKey |-> apiKey, model |-> model],
             out |-> <<Notify("session-initializing", JSStr(<<"true">>)),
                       Notify("session-initializing", JSStr(<<"false">>)),
                       Notify("update-status", JSStr(<<"initialized">>))>>]

Init ==
    /\ calls = [c \in Calls |-> IdleCall]
    /\ returned = IdleCall
    /\ openRouterSessionRef = NoHandle
    /\ geminiSessionRef = NoHandle
    /\ heap = [h \in Handles |-> FreeSession]
    /\ gheap = [g \in GHandles |-> "free"]
    /\ currentSessionId = JSNull
    /\ conversationHistory = <<>>
    /\ isInitializingSession = FALSE
    /\ reconnectionAttempts = 0
    /\ lastSessionParams = NoParams
    /\ geminiInitializing = FALSE
    /\ geminiAttempts = 0
    /\ geminiStatus = "Idle"
    /\ geminiNotice = ""
    /\ reconnectCalls = 0
    /\ clock = 1
    /\ grok = GrokInit

\* initialize-model from its call to the await of getCurrentModelType(): the
\* apiKey check.  mt is the provider the renderer is going to answer; the record
\* notes whether an earlier initialize-model for that provider is still pending
InitializeModel(apiKey, mt) ==
    /\ InvalidApiKey(apiKey) \/ RoomForInit
    /\ IF InvalidApiKey(apiKey)
       THEN Deliver(Finish(NewCall("init", apiKey, ""), Fail(ErrInvalidKey)))
       ELSE Deliver([NewCall("init", apiKey, mt) EXCEPT
                        !.pc = "settings",
                        !.overlap = \E c \in Pending({"init"}) : calls[c].mt = mt])
    /\ UNCHANGED <<slotVars, orVars, gemVars, clock, grok>>

\* initialize-model once the renderer answered.  openrouter: the model read, the
\* call of initializeOpenRouterSession(apiKey.trim(), model, ...), which runs
\* without suspending, the slot write and the return.  gemini: the call of
\* initializeGeminiSession(apiKey.trim(), ...) up to its await of the backend
InitResume(c, rawModel) ==
    /\ calls[c].pc = "settings"
    /\ LET cr == calls[c]
           mt == calls[c].mt
       IN
       IF mt = "openrouter"
       THEN /\ UNCHANGED <<geminiSessionRef, gheap, gemVars>>
            /\ IF rawModel = "throws"
               THEN /\ Return(c, Finish(cr, Fail(ErrThrown)))
                    /\ UNCHANGED <<openRouterSessionRef, heap, orVars>>
               ELSE LET r == InitializeOpenRouterSession(
                                 JSStr(Trim(cr.arg.s)), ReadOpenRouterModel(rawModel), FALSE)
                    IN  /\ lastSessionParams' = r.params
                        /\ reconnectionAttempts' = r.attempts
                        /\ currentSessionId' = r.sid
                        /\ conversationHistory' = r.hist
                        /\ UNCHANGED isInitializingSession
                        /\ IF r.busy
                           THEN /\ Return(c, Finish(cr, Fail(ErrInitOpenRouter)))
                                /\ UNCHANGED <<openRouterSessionRef, heap>>
                           ELSE /\ heap' = [heap EXCEPT ![NewHandle] = r.session]
                                /\ openRouterSessionRef' = NewHandle
                                /\ Return(c, Finish([cr EXCEPT !.h = NewHandle,
                                                               !.out = r.out], Ok))
       ELSE /\ UNCHANGED <<slotVars, orVars>>
            /\ IF geminiInitializing
               THEN /\ Return(c, Finish(cr, Fail(ErrInitGemini)))
                    /\ UNCHANGED gemVars
               ELSE /\ calls' = [calls EXCEPT ![c] =
                           [cr EXCEPT !.pc = "gconnect", !.reqs = 1,
                               !.out = <<Notify("session-initializing", JSStr(<<"true">>))>>]]
                    /\ returned' = IdleCall
                    /\ geminiInitializing' = TRUE
                    /\ geminiStatus' = "Connecting"
                    /\ UNCHANGED <<geminiAttempts, geminiNotice, reconnectCalls>>
    /\ UNCHANGED <<clock, grok>>

\* the calls inside initializeOpenRouterSession that are made outside any try
\* block: sendToRenderer('session-initializing', true), getSystemPrompt(...), and
\* sendToRenderer('session-initializing', false)
InitThrowSites == {"notify-true", "prompt", "notify-false"}

\* initialize-model once the renderer answered, openrouter, when one of those calls
\* throws: initializeOpenRouterSession is left at that line with what it had
\* written, and the handler's catch block returns the error
InitResumeThrows(c, at) ==
    /\ calls[c].pc = "settings"
    /\ calls[c].mt = "openrouter"
    /\ ~isInitializingSession
    /\ LET r == InitializeOpenRouterSession(
                    JSStr(Trim(calls[c].arg.s)), ReadOpenRouterModel("null"), FALSE)
           early == at = "notify-true"
           late == at = "notify-false"
           started == Notify("session-initializing", JSStr(<<"true">>))
       IN  /\ isInitializingSession' = ~late
           /\ lastSessionParams' = IF early THEN lastSessionParams ELSE r.params
           /\ reconnectionAttempts' = IF early THEN reconnectionAttempts ELSE r.attempts
           /\ currentSessionId' = IF late THEN r.sid ELSE currentSessionId
           /\ conversationHistory' = IF late THEN r.hist ELSE conversationHistory
           /\ Return(c, Finish([calls[c] EXCEPT !.out = IF early THEN <<>> ELSE <<started>>],
                               Fail(ErrThrown)))
    /\ UNCHANGED <<slotVars, gemVars, clock, grok>>

\* the Gemini branch of initialize-model emptying the OpenRouter slot as it fills
\* its own
GeminiConnected_DropsOther(c) ==
    /\ calls[c].pc = "gconnect"
    /\ geminiInitializing' = FALSE
    /\ \E ok \in BOOLEAN :
        LET cr == [calls[c] EXCEPT
                      !.out = Append(@, Notify("session-initializing", JSStr(<<"false">>)))]
        IN
        IF ok
        THEN /\ gheap' = [gheap EXCEPT ![NewGHandle] = "open"]
             /\ geminiSessionRef' = NewGHandle
             /\ openRouterSessionRef' = NoHandle
             /\ Return(c, Finish([cr EXCEPT !.h = NewGHandle], Ok))
             /\ geminiAttempts' = 0
             /\ reconnectCalls' = 0
             /\ geminiStatus' = "Connected"
             /\ geminiNotice' = "connected"
        ELSE /\ Return(c, Finish(cr, Fail(ErrInitGemini)))
             /\ geminiStatus' = "Idle"
             /\ UNCHANGED <<geminiSessionRef, gheap, geminiAttempts, geminiNotice,
                            reconnectCalls, openRouterSessionRef>>
    /\ UNCHANGED <<heap, orVars, clock, grok>>

\* initializeGeminiSession(isReconnection = false) when the backend answers, and
\* initialize-model's slot write and return
GeminiConnected(c) ==
    /\ calls[c].pc = "gconnect"
    /\ geminiInitializing' = FALSE
    /\ \E ok \in BOOLEAN :
        LET cr == [calls[c] EXCEPT
                      !.out = Append(@, Notify("session-initializing", JSStr(<<"false">>)))]
        IN
        IF ok
        THEN /\ gheap' = [gheap EXCEPT ![NewGHandle] = "open"]
             /\ geminiSessionRef' = NewGHandle
             /\ Return(c, Finish([cr EXCEPT !.h = NewGHandle], Ok))
             /\ geminiAttempts' = 0
             /\ reconnectCalls' = 0
             /\ geminiStatus' = "Connected"
             /\ geminiNotice' = "connected"
        ELSE /\ Return(c, Finish(cr, Fail(ErrInitGemini)))
             /\ geminiStatus' = "Idle"
             /\ UNCHANGED <<geminiSessionRef, gheap, geminiAttempts, geminiNotice,
                            reconnectCalls>>
    /\ UNCHANGED <<openRouterSessionRef, heap, orVars, clock, grok>>

\* a call of the exported initializeOpenRouterSession(apiKey, model, ...,
\* isReconnection = true); the session object it creates goes to the caller
DirectReconnect(apiKey, model) ==
    /\ RoomForInit
    /\ LET r == InitializeOpenRouterSession(apiKey, model, TRUE)
           cr == NewCall("reconnect", apiKey, "openrouter")
       IN  /\ lastSessionParams' = r.params
           /\ reconnectionAttempts' = r.attempts
           /\ currentSessionId' = r.sid
           /\ conversationHistory' = r.hist
           /\ IF r.busy
              THEN /\ Deliver(Finish(cr, Fail(ErrInitOpenRouter)))
                   /\ UNCHANGED heap
              ELSE /\ heap' = [heap EXCEPT ![NewHandle] = r.session]
                   /\ Deliver(Finish([cr EXCEPT !.h = NewHandle, !.out = r.out], Ok))
    /\ UNCHANGED <<openRouterSessionRef, geminiSessionRef, gheap, isInitializingSession,
                   gemVars, clock, grok>>

\* ------------------------------------------------------------- reconnection
\* let maxReconnectionAttempts = 3
maxReconnectionAttempts == 3

\* the supervisor's test with the bound included
CanReconnect_Inclusive == geminiAttempts <= maxReconnectionAttempts

\* the supervisor may try again: attemptCount < maxAttempts
CanReconnect == geminiAttempts < maxReconnectionAttempts

\* where the supervisor goes when the connection is lost or an attempt failed
AfterDisconnect ==
    IF CanReconnect
    THEN geminiStatus' = "Disconnected" /\ UNCHANGED geminiNotice
    ELSE geminiStatus' = "Failed" /\ geminiNotice' = "failed"

\* the streaming session in the slot drops its connection unexpectedly
GeminiDisconnect ==
    /\ geminiStatus = "Connected"
    /\ geminiSessionRef # NoHandle
    /\ gheap[geminiSessionRef] = "open"
    /\ gheap' = [gheap EXCEPT ![geminiSessionRef] = "closed"]
    /\ AfterDisconnect
    /\ returned' = IdleCall
    /\ UNCHANGED <<calls, openRouterSessionRef, geminiSessionRef, heap, orVars,
                   geminiInitializing, geminiAttempts, reconnectCalls, clock, grok>>

\* after baseDelay the supervisor counts the attempt and calls
\* initialize(...lastParams, isReconnection = true)
SupervisorRetry ==
    /\ geminiStatus = "Disconnected"
    /\ CanReconnect
    /\ ~geminiInitializing
    /\ geminiAttempts' = geminiAttempts + 1
    /\ reconnectCalls' = reconnectCalls + 1
    /\ geminiInitializing' = TRUE
    /\ geminiStatus' = "Connecting"
    /\ returned' = IdleCall
    /\ UNCHANGED <<calls, slotVars, orVars, geminiNotice, clock, grok>>

\* the supervisor's initialize settles: a new session replaces the one in the
\* slot and the attempt counter stays, or the attempt failed
SupervisorConnected(ok) ==
    /\ geminiStatus = "Connecting"
    /\ geminiInitializing
    /\ \A c \in Calls : calls[c].pc # "gconnect"
    /\ ok => RoomForInit
    /\ geminiInitializing' = FALSE
    /\ IF ok
       THEN /\ gheap' = [gheap EXCEPT ![NewGHandle] = "open"]
            /\ geminiSessionRef' = NewGHandle
            /\ geminiStatus' = "Connected"
            /\ geminiNotice' = "connected"
       ELSE /\ AfterDisconnect
            /\ UNCHANGED <<geminiSessionRef, gheap>>
    /\ returned' = IdleCall
    /\ UNCHANGED <<calls, openRouterSessionRef, heap, orVars, geminiAttempts,
                   reconnectCalls, clock, grok>>

\* ------------------------------------------------------------- send
\* the argument check without the trim test of send-text-message
InvalidSendInput_NoTrim(op, arg) == ~Truthy(arg) \/ ~IsString(arg)

\* send-text-message / send-image-content: the argument check
InvalidSendInput(op, arg) ==
    IF op = "text"
    THEN ~Truthy(arg) \/ ~IsString(arg) \/ Len(Trim(arg.s)) = 0
    ELSE ~Truthy(arg) \/ ~IsString(arg)

\* the unified handlers' test of the OpenRouter slot
OpenRouterSlotInactive ==
    openRouterSessionRef = NoHandle \/ ~heap[openRouterSessionRef].active

\* the guard without its test of session.active
OpenRouterSessionUnusable_NoActive(session) ==
    \/ session = NoHandle
    \/ ~Truthy(heap[session].apiKey)
    \/ heap[session].model = ""

\* sendTextToOpenRouter / sendImageToOpenRouter: the guard that throws
OpenRouterSessionUnusable(session) ==
    \/ session = NoHandle
    \/ ~Truthy(heap[session].apiKey)
    \/ heap[session].model = ""
    \/ ~heap[session].active

\* sendTextToOpenRouter / sendImageToOpenRouter up to the await of axios.post; the
\* pending call is noted with the currentSessionId it was issued under
CallOpenRouter(cr, session) ==
    IF OpenRouterSessionUnusable(session)
    THEN Finish(cr, Fail(ErrNoOpenRouter))
    ELSE [cr EXCEPT !.pc = "post", !.h = session, !.reqs = 1, !.seen = currentSessionId]

\* session.sendRealtimeInput of the streaming session, as the handlers await it
GeminiSendRealtimeInput(cr, g, ok) ==
    IF gheap[g] # "open" THEN Finish(cr, Fail(ErrSessionClosed))
    ELSE IF ok THEN Finish([cr EXCEPT !.reqs = 1], Ok)
    ELSE Finish([cr EXCEPT !.reqs = 1], Fail(ErrThrown))

\* the handler's argument of the adapter call
AdapterArg(op, arg) == IF op = "text" THEN JSStr(Trim(arg.s)) ELSE arg

\* the handlers dispatching without a look at the provider's slot
SendHandler_NoSlotCheck(op, arg, mt, ok) ==
    LET cr == NewCall(op, arg, mt)
    IN  IF InvalidSendInput(op, arg)
        THEN Finish(NewCall(op, arg, ""),
                    Fail(IF op = "text" THEN ErrInvalidText ELSE ErrInvalidImage))
        ELSE IF mt = "openrouter"
        THEN [cr EXCEPT !.arg = AdapterArg(op, arg), !.pc = "post",
                        !.h = openRouterSessionRef, !.reqs = 1]
        ELSE Finish([cr EXCEPT !.reqs = 1], IF ok THEN Ok ELSE Fail(ErrThrown))

\* send-text-message / send-image-content from the call to the await of the
\* backend request, or to the return
SendHandler(op, arg, mt, ok) ==
    LET cr == NewCall(op, arg, mt)
    IN  IF InvalidSendInput(op, arg)
        THEN Finish(NewCall(op, arg, ""),
                    Fail(IF op = "text" THEN ErrInvalidText ELSE ErrInvalidImage))
        ELSE IF mt = "openrouter"
        THEN IF OpenRouterSlotInactive
             THEN Finish(cr, Fail(ErrNoOpenRouter))
             ELSE CallOpenRouter([cr EXCEPT !.arg = AdapterArg(op, arg)],
                                 openRouterSessionRef)
        ELSE IF geminiSessionRef = NoHandle
             THEN Finish(cr, Fail(ErrNoGemini))
             ELSE IF op = "image" /\ Base64Bytes(arg.s) < MinImageBytes
                  THEN Finish(cr, Fail(ErrImageSmall))
                  ELSE GeminiSendRealtimeInput(cr, geminiSessionRef, ok)

Send(op, arg, mt, ok) ==
    /\ RoomForSend
    /\ Deliver(SendHandler(op, arg, mt, ok))
    /\ UNCHANGED <<slotVars, orVars, gemVars, clock, grok>>

\* a call of the exported sendTextToOpenRouter / sendImageToOpenRouter with any
\* session object the caller holds
DirectSend(op, arg, session) ==
    /\ RoomForSend
    /\ session \in Allocated \cup {NoHandle}
    /\ Deliver(CallOpenRouter([NewCall(op, arg, "openrouter") EXCEPT !.h = session], session))
    /\ UNCHANGED <<slotVars, orVars, gemVars, clock, grok>>

\* error.response?.data?.error?.message || error.message || 'Unknown error'
ErrorMsg(kind) ==
    IF kind = "vendor" THEN "vendor error message"
    ELSE IF kind = "network" THEN "timeout of 30000ms exceeded"
    ELSE ErrUnknown

\* resp.data?.choices?.[0]?.message?.content || ''
ReplyOf(content) == IF Truthy(content) THEN content ELSE JSStr(<<>>)

\* the test that guards saveConversationTurn
ShouldSave(isImage, text, reply) ==
    IF isImage THEN Truthy(reply) ELSE Truthy(text) /\ Truthy(reply)

\* sendTextToOpenRouter / sendImageToOpenRouter from the settling of axios.post on:
\* whether it throws, and the log and notifications it leaves
CompleteSend(isImage, text, resp) ==
    LET same == [threw |-> FALSE, msg |-> "", sid |-> currentSessionId,
                 hist |-> conversationHistory, out |-> <<>>, appended |-> 0]
    IN
    IF resp.kind = "error"
    THEN [same EXCEPT !.threw = TRUE, !.msg = ErrorMsg(resp.err),
                      !.out = <<Notify("update-status", JSStr(<<ErrorMsg(resp.err)>>))>>]
    ELSE LET reply == ReplyOf(resp.content)
             shown == <<Notify("update-response", reply)>>
         IN  IF ~ShouldSave(isImage, text, reply)
             THEN [same EXCEPT !.out = shown]
             ELSE IF ~IsString(reply)
             THEN \* aiResponse.trim() throws after the session id was looked at
                  [same EXCEPT !.threw = TRUE, !.msg = ErrNotAFunction,
                        !.sid = IF ~Truthy(currentSessionId)
                                THEN InitializeNewSession[1] ELSE currentSessionId,
                        !.hist = IF ~Truthy(currentSessionId)
                                 THEN InitializeNewSession[2] ELSE conversationHistory,
                        !.out = Append(shown, Notify("update-status", JSStr(<<ErrNotAFunction>>)))]
             ELSE LET saved == SaveConversationTurn(
                                   currentSessionId, conversationHistory,
                                   IF isImage THEN ImagePlaceholder ELSE text.s, reply.s)
                  IN  [same EXCEPT !.sid = saved.sid, !.hist = saved.hist,
                                   !.out = Append(shown, SaveNotification(saved)),
                                   !.appended = 1]

\* the backend request of a pending send settles
SendComplete(c, resp) ==
    /\ calls[c].pc = "post"
    /\ LET r == CompleteSend(calls[c].op \in {"image", "dimage"}, calls[c].arg, resp)
           cr == [calls[c] EXCEPT !.out = r.out, !.appended = r.appended,
                                  !.seen = JSUndef]
       IN  /\ currentSessionId' = r.sid
           /\ conversationHistory' = r.hist
           /\ Return(c, Finish(cr, IF r.threw THEN Fail(r.msg) ELSE Ok))
    /\ UNCHANGED <<slotVars, isInitializingSession, reconnectionAttempts,
                   lastSessionParams, gemVars, clock, grok>>

\* a call of the exported saveConversationTurn(transcription, aiResponse).  With a
\* transcription that is not a string, transcription.trim() throws after the
\* session was created and before the push
DirectSaveArgs == {JSNum, JSStr(<<"a">>)}

DirectSaveConversationTurn(transcription) ==
    /\ RoomForSend
    /\ LET cr == NewCall("save", transcription, "openrouter")
           saved == SaveConversationTurn(currentSessionId, conversationHistory,
                                         transcription.s, <<"b">>)
       IN  IF IsString(transcription)
           THEN /\ currentSessionId' = saved.sid
                /\ conversationHistory' = saved.hist
                /\ Deliver(Finish([cr EXCEPT !.out = <<SaveNotification(saved)>>,
                                             !.appended = 1], Ok))
           ELSE /\ currentSessionId' = IF ~Truthy(currentSessionId)
                                       THEN InitializeNewSession[1] ELSE currentSessionId
                /\ conversationHistory' = IF ~Truthy(currentSessionId)
                                          THEN InitializeNewSession[2]
                                          ELSE conversationHistory
                /\ Deliver(Reject(cr, ErrThrown))
    /\ UNCHANGED <<slotVars, isInitializingSession, reconnectionAttempts,
                   lastSessionParams, gemVars, clock, grok>>

\* ------------------------------------------------------------- audio
\* the audio handlers without the provider gate
AudioHandler_NoGate(op, arg, mt, ok) ==
    LET cr == NewCall(op, arg, mt)
    IN  IF geminiSessionRef = NoHandle
        THEN Finish(cr, Fail(ErrNoGemini))
        ELSE IF ~Truthy(arg) \/ ~IsString(arg)
             THEN Finish(cr, Fail(IF op = "mic" THEN ErrInvalidMic ELSE ErrInvalidAudio))
             ELSE GeminiSendRealtimeInput(cr, geminiSessionRef, ok)

\* send-audio-content / send-mic-audio-content
AudioHandler(op, arg, mt, ok) ==
    LET cr == NewCall(op, arg, mt)
    IN  IF mt = "openrouter"
        THEN Finish(cr, Fail(ErrAudioUnsupported))
        ELSE IF geminiSessionRef = NoHandle
             THEN Finish(cr, Fail(ErrNoGemini))
             ELSE IF ~Truthy(arg) \/ ~IsString(arg)
                  THEN Finish(cr, Fail(IF op = "mic" THEN ErrInvalidMic ELSE ErrInvalidAudio))
                  ELSE GeminiSendRealtimeInput(cr, geminiSessionRef, ok)

SendAudio(op, arg, mt, ok) ==
    /\ Deliver(AudioHandler(op, arg, mt, ok))
    /\ UNCHANGED <<slotVars, orVars, gemVars, clock, grok>>

\* ------------------------------------------------------------- close
\* close-session, the OpenRouter block: <<slot, heap>> after it
CloseOpenRouter(slot, objects) ==
    IF slot # NoHandle
    THEN <<NoHandle, [objects EXCEPT ![slot].active = FALSE]>>
    ELSE <<slot, objects>>

\* close-session, the Gemini block after close() settled: the slot after it
CloseGemini(slot, threw) == IF threw THEN slot ELSE NoHandle

\* close() of the streaming session: it closes the connection, or throws and
\* leaves it as it was, or closes it and throws
CloseOutcomes == {"closed", "threw", "closedAndThrew"}

\* close-session up to the await of geminiSessionRef.current.close(), or to its
\* return when the Gemini slot is empty
CloseStart(outcome) ==
    /\ IF geminiSessionRef # NoHandle
       THEN /\ gheap' = [gheap EXCEPT ![geminiSessionRef] =
                             IF outcome = "threw" THEN @ ELSE "closed"]
            /\ Deliver([NewCall("close", JSUndef, "") EXCEPT
                           !.pc = IF outcome = "closed" THEN "gclosed" ELSE "gthrew"])
            /\ UNCHANGED <<openRouterSessionRef, heap>>
       ELSE /\ outcome = "closed"
            /\ openRouterSessionRef' = CloseOpenRouter(openRouterSessionRef, heap)[1]
            /\ heap' = CloseOpenRouter(openRouterSessionRef, heap)[2]
            /\ Deliver(Finish(NewCall("close", JSUndef, ""), Ok))
            /\ UNCHANGED gheap
    /\ UNCHANGED <<geminiSessionRef, orVars, gemVars, clock, grok>>

\* close-session after close() settled
CloseResume(c) ==
    /\ calls[c].pc \in {"gclosed", "gthrew"}
    /\ geminiSessionRef' = CloseGemini(geminiSessionRef, calls[c].pc = "gthrew")
    /\ openRouterSessionRef' = CloseOpenRouter(openRouterSessionRef, heap)[1]
    /\ heap' = CloseOpenRouter(openRouterSessionRef, heap)[2]
    /\ Return(c, Finish(calls[c], Ok))
    /\ UNCHANGED <<gheap, orVars, gemVars, clock, grok>>

\* openrouter-close-session
PrefixClose ==
    /\ lastSessionParams' = NoParams
    /\ openRouterSessionRef' = CloseOpenRouter(openRouterSessionRef, heap)[1]
    /\ heap' = CloseOpenRouter(openRouterSessionRef, heap)[2]
    /\ Deliver(Finish(NewCall("pclose", JSUndef, "openrouter"), Ok))
    /\ UNCHANGED <<geminiSessionRef, gheap, currentSessionId, conversationHistory,
                   isInitializingSession, reconnectionAttempts, gemVars, clock, grok>>

\* cleanupAllSessions, called at window-all-closed, before-quit and
\* quit-application.  The two blocks run inside promise executors, without a
\* suspension: close() is called and not awaited, and when it throws the catch
\* block skips the write of the Gemini slot
CleanupAllSessions(outcome) ==
    /\ IF geminiSessionRef # NoHandle
       THEN /\ gheap' = [gheap EXCEPT ![geminiSessionRef] =
                             IF outcome = "threw" THEN @ ELSE "closed"]
            /\ geminiSessionRef' = CloseGemini(geminiSessionRef, outcome # "closed")
       ELSE /\ outcome = "closed"
            /\ UNCHANGED <<geminiSessionRef, gheap>>
    /\ openRouterSessionRef' = CloseOpenRouter(openRouterSessionRef, heap)[1]
    /\ heap' = CloseOpenRouter(openRouterSessionRef, heap)[2]
    /\ Deliver(Finish(NewCall("cleanup", JSUndef, ""), Ok))
    /\ UNCHANGED <<orVars, gemVars, clock, grok>>

\* ------------------------------------------------------------- payload
\* the handlers whose parameter list destructures the payload: { data, ... }
PayloadOps == {"image", "audio", "mic"}

\* send-image-content, send-audio-content or send-mic-audio-content invoked without a
\* payload object: the destructuring throws before the try block is entered
SendNoPayload(op) ==
    /\ Deliver(Reject(NewCall(op, JSUndef, ""), ErrDestructure))
    /\ UNCHANGED <<slotVars, orVars, gemVars, clock, grok>>

\* ------------------------------------------------------------- session data
\* what the Gemini module answers for its own log
GeminiSessionId == [t |-> "gemini", s |-> <<>>]

\* getCurrentSessionData answering an empty history
GetCurrentSessionData_NoHistory == [sessionId |-> currentSessionId, history |-> <<>>]

\* getCurrentSessionData
GetCurrentSessionData == [sessionId |-> currentSessionId, history |-> conversationHistory]

\* start-new-session up to the await of getCurrentModelType()
StartNewSession(mt) ==
    /\ Deliver([NewCall("start-new-session", JSUndef, mt) EXCEPT
                   !.pc = "route", !.seen = currentSessionId])
    /\ UNCHANGED <<slotVars, orVars, gemVars, clock, grok>>

\* start-new-session once the renderer answered: the selected module's
\* initializeNewSession(), then the sessionId of the result, for which the clock
\* is read again (later: it moved on in between)
StartNewSessionResume(c, later) ==
    /\ calls[c].op = "start-new-session"
    /\ calls[c].pc = "route"
    /\ later => clock < MaxClock
    /\ IF calls[c].mt = "openrouter"
       THEN /\ currentSessionId' = InitializeNewSession[1]
            /\ conversationHistory' = InitializeNewSession[2]
       ELSE UNCHANGED <<currentSessionId, conversationHistory>>
    /\ clock' = IF later THEN clock + 1 ELSE clock
    /\ Return(c, Finish([calls[c] EXCEPT !.sessionId = NumberToString(clock')], Ok))
    /\ UNCHANGED <<slotVars, isInitializingSession, reconnectionAttempts,
                   lastSessionParams, gemVars, grok>>

\* openrouter-start-new-session
PrefixStartNewSession ==
    /\ currentSessionId' = InitializeNewSession[1]
    /\ conversationHistory' = InitializeNewSession[2]
    /\ Deliver(Finish([NewCall("openrouter-start-new-session", JSUndef, "openrouter") EXCEPT
                          !.seen = currentSessionId,
                          !.sessionId = currentSessionId'], Ok))
    /\ UNCHANGED <<slotVars, isInitializingSession, reconnectionAttempts,
                   lastSessionParams, gemVars, clock, grok>>

\* get-current-session up to the await of getCurrentModelType()
GetCurrentSession(mt) ==
    /\ Deliver([NewCall("get-current-session", JSUndef, mt) EXCEPT !.pc = "route"])
    /\ UNCHANGED <<slotVars, orVars, gemVars, clock, grok>>

\* get-current-session once the renderer answered
GetCurrentSessionResume(c) ==
    /\ calls[c].op = "get-current-session"
    /\ calls[c].pc = "route"
    /\ Return(c, Finish(IF calls[c].mt = "openrouter"
                        THEN [calls[c] EXCEPT
                                 !.sessionId = GetCurrentSessionData.sessionId,
                                 !.history = GetCurrentSessionData.history]
                        ELSE [calls[c] EXCEPT !.sessionId = GeminiSessionId], Ok))
    /\ UNCHANGED <<slotVars, orVars, gemVars, clock, grok>>

\* openrouter-get-current-session
PrefixGetCurrentSession ==
    /\ Deliver(Finish([NewCall("openrouter-get-current-session", JSUndef, "openrouter") EXCEPT
                          !.sessionId = GetCurrentSessionData.sessionId,
                          !.history = GetCurrentSessionData.history], Ok))
    /\ UNCHANGED <<slotVars, orVars, gemVars, clock, grok>>

\* ------------------------------------------------------------- Grok module
GrokKeys == {JSStr(<<"k">>), JSStr(<<"j">>)}
GrokSessions == 1..MaxGrokSessions

\* initializeGrokSession from its call to the await of the request: the module's
\* variables after it (unchanged when the call is rejected as busy)
InitializeGrokSessionEnter(g, apiKey, isReconnection) ==
    IF g.isInitializingSession
    THEN g
    ELSE [g EXCEPT !.isInitializingSession = TRUE,
                   !.lastSessionParams = IF isReconnection THEN @
                                         ELSE [set |-> TRUE, apiKey |-> apiKey],
                   !.reconnectionAttempts = IF isReconnection THEN @ ELSE 0,
                   !.pending = IF isReconnection THEN "reconnect" ELSE "fresh",
                   !.arg = apiKey,
                   !.found = g.lastSessionParams]

\* initializeGrokSession once the request settled: the response's session id, or
\* the catch block
InitializeGrokSessionSettle(g, ok, id) ==
    LET fresh == g.pending = "fresh"
        log == IF ok /\ fresh THEN InitializeNewSession
               ELSE <<g.currentSessionId, g.conversationHistory>>
    IN  [g EXCEPT !.isInitializingSession = FALSE,
                  !.pending = "none",
                  !.arg = JSUndef,
                  !.found = NoGrokParams,
                  !.globalRef = IF ok THEN id ELSE @,
                  !.currentSessionId = log[1],
                  !.conversationHistory = log[2]]

\* initialize-grok up to the await inside initializeGrokSession, or to its
\* return of false when an initialize is in progress
GrokInitialize(apiKey) ==
    /\ grok' = IF grok.isInitializingSession
               THEN [grok EXCEPT !.ret = "false"]
               ELSE [InitializeGrokSessionEnter(grok, apiKey, FALSE) EXCEPT
                        !.entry = grok.reconnectionAttempts, !.ret = "none"]
    /\ returned' = IdleCall
    /\ UNCHANGED <<calls, slotVars, orVars, gemVars, clock>>

\* the request of the pending initializeGrokSession settled; a fresh call returns
\* to initialize-grok, which writes the handlers' reference and returns
GrokConnected(ok, id) ==
    /\ grok.pending # "none"
    /\ LET fresh == grok.pending = "fresh"
       IN grok' = [InitializeGrokSessionSettle(grok, ok, id) EXCEPT
                      !.grokSessionRef = IF ok /\ fresh THEN id ELSE @,
                      !.ret = IF ~fresh THEN "none" ELSE IF ok THEN "true" ELSE "false"]
    /\ returned' = IdleCall
    /\ UNCHANGED <<calls, slotVars, orVars, gemVars, clock>>

\* the reconnection supervisor after the connected session was lost: it counts
\* the attempt and calls initializeGrokSession(...lastSessionParams, true)
GrokSupervisorRetry ==
    /\ grok.globalRef # 0
    /\ grok.pending = "none"
    /\ grok.lastSessionParams.set
    /\ grok.reconnectionAttempts < maxReconnectionAttempts
    /\ LET counted == [grok EXCEPT !.reconnectionAttempts = @ + 1, !.ret = "none"]
       IN grok' = [InitializeGrokSessionEnter(counted, counted.lastSessionParams.apiKey, TRUE)
                      EXCEPT !.entry = counted.reconnectionAttempts]
    /\ returned' = IdleCall
    /\ UNCHANGED <<calls, slotVars, orVars, gemVars, clock>>

\* the Grok module's send handlers
GrokSendOps == {"grok-text", "grok-image", "grok-audio"}
GrokSendArgs == {JSNum, JSStr(<<"a">>)}

\* sendTextToGrok / sendImageToGrok / sendAudioToGrok up to the await of
\* axios.post: the request's arguments are built inside the try block, so a
\* text.trim() or a lastSessionParams.apiKey that throws is caught and the
\* function returns without a request
CallGrok(cr, arg) ==
    IF (cr.op = "grok-text" /\ ~IsString(arg)) \/ ~grok.lastSessionParams.set
    THEN Finish(cr, Ok)
    ELSE [cr EXCEPT !.pc = "gpost", !.h = grok.grokSessionRef, !.reqs = 1]

\* send-text-message, send-image-content and send-audio-content of
\* setupGrokIpcHandlers, up to the await of the request or to the return
GrokSend(op, arg) ==
    /\ IF grok.grokSessionRef = 0
       THEN Deliver(Finish(NewCall(op, arg, "grok"), Fail(ErrNoGrok)))
       ELSE Deliver(CallGrok(NewCall(op, arg, "grok"), arg))
    /\ grok' = [grok EXCEPT !.ret = "none"]
    /\ UNCHANGED <<slotVars, orVars, gemVars, clock>>

\* the request of a pending Grok send settled: a rejection is logged in the
\* catch block of the send function, which returns as after a success
GrokSendComplete(c, ok) ==
    /\ calls[c].pc = "gpost"
    /\ Return(c, Finish(calls[c], Ok))
    /\ grok' = [grok EXCEPT !.ret = "none"]
    /\ UNCHANGED <<slotVars, orVars, gemVars, clock>>

\* ------------------------------------------------------------- time
Tick ==
    /\ clock < MaxClock
    /\ clock' = clock + 1
    /\ returned' = IdleCall
    /\ UNCHANGED <<calls, slotVars, orVars, gemVars, grok>>

\* ------------------------------------------------------------- specifications
\* the router: initialize-model, the sends and close-session
Next ==
    \/ \E k \in ApiKeys, mt \in ModelTypes : InitializeModel(k, mt)
    \/ \E c \in Calls, rm \in {"null", "throws"} : InitResume(c, rm)
    \/ \E c \in Calls : GeminiConnected(c)
    \/ \E t \in Texts, mt \in ModelTypes, ok \in BOOLEAN : Send("text", t, mt, ok)
    \/ \E d \in ImageDatas, mt \in ModelTypes, ok \in BOOLEAN : Send("image", d, mt, ok)
    \/ \E c \in Calls, resp \in PlainResponses : SendComplete(c, resp)
    \/ \E o \in CloseOutcomes : CloseStart(o)
    \/ \E c \in Calls : CloseResume(c)

Spec == Init /\ [][Next]_vars

\* the audio handlers, with sessions opened and closed around them
NextAudio ==
    \/ \E k \in ApiKeys, mt \in ModelTypes : InitializeModel(k, mt)
    \/ \E c \in Calls, rm \in {"null", "throws"} : InitResume(c, rm)
    \/ \E c \in Calls : GeminiConnected(c)
    \/ \E op \in AudioOps, d \in AudioDatas, mt \in ModelTypes, ok \in BOOLEAN :
            SendAudio(op, d, mt, ok)
    \/ \E o \in CloseOutcomes : CloseStart(o)
    \/ \E c \in Calls : CloseResume(c)

SpecAudio == Init /\ [][NextAudio]_vars

\* initialize-model and the two close handlers, with the clock running
NextInit ==
    \/ \E k \in ApiKeys, mt \in ModelTypes : InitializeModel(k, mt)
    \/ \E c \in Calls, rm \in ModelSettings : InitResume(c, rm)
    \/ \E c \in Calls : GeminiConnected(c)
    \/ \E o \in CloseOutcomes : CloseStart(o)
    \/ \E c \in Calls : CloseResume(c)
    \/ PrefixClose
    \/ Tick

SpecInit == Init /\ [][NextInit]_vars

\* initialize-model for the stateless provider with calls that throw inside
\* initializeOpenRouterSession, and sends
NextInitThrows ==
    \/ \E k \in {JSStr(<<"k">>), JSStr(<<"j">>)} : InitializeModel(k, "openrouter")
    \/ \E c \in Calls : InitResume(c, "null")
    \/ \E c \in Calls, at \in InitThrowSites : InitResumeThrows(c, at)
    \/ \E ok \in BOOLEAN : Send("text", JSStr(<<"a">>), "openrouter", ok)
    \/ \E c \in Calls, resp \in PlainResponses : SendComplete(c, resp)
    \/ Tick

SpecInitThrows == Init /\ [][NextInitThrows]_vars

\* initialize-model, close-session and the cleanup at shutdown
NextShutdown ==
    \/ \E mt \in ModelTypes : InitializeModel(JSStr(<<"k">>), mt)
    \/ \E c \in Calls : InitResume(c, "null")
    \/ \E c \in Calls : GeminiConnected(c)
    \/ \E o \in CloseOutcomes : CloseStart(o)
    \/ \E c \in Calls : CloseResume(c)
    \/ \E o \in CloseOutcomes : CleanupAllSessions(o)

SpecShutdown == Init /\ [][NextShutdown]_vars

\* the OpenRouter adapter's exported send functions called with any handle the
\* caller kept, beside the handlers
NextDirect ==
    \/ \E k \in ApiKeys : InitializeModel(k, "openrouter")
    \/ \E c \in Calls, rm \in ModelSettings : InitResume(c, rm)
    \/ \E t \in Texts, ok \in BOOLEAN : Send("text", t, "openrouter", ok)
    \/ \E t \in DirectTexts, h \in Handles \cup {NoHandle} : DirectSend("dtext", t, h)
    \/ \E h \in Handles \cup {NoHandle} : DirectSend("dimage", JSStr(Blocks(2)), h)
    \/ \E c \in Calls, resp \in Responses : SendComplete(c, resp)
    \/ CloseStart("closed")
    \/ PrefixClose

SpecDirect == Init /\ [][NextDirect]_vars

\* the streaming provider with its reconnection supervisor
NextReconnect ==
    \/ \E k \in ApiKeys : InitializeModel(k, "gemini")
    \/ \E c \in Calls : InitResume(c, "null")
    \/ \E c \in Calls : GeminiConnected(c)
    \/ GeminiDisconnect
    \/ SupervisorRetry
    \/ \E ok \in BOOLEAN : SupervisorConnected(ok)

SpecReconnect == Init /\ [][NextReconnect]_vars

\* the Grok module with its reconnection supervisor, beside the OpenRouter
\* initialize
NextGrok ==
    \/ \E k \in ApiKeys : InitializeModel(k, "openrouter")
    \/ \E c \in Calls, rm \in ModelSettings : InitResume(c, rm)
    \/ \E k \in GrokKeys : GrokInitialize(k)
    \/ \E ok \in BOOLEAN, id \in GrokSessions : GrokConnected(ok, id)
    \/ GrokSupervisorRetry
    \/ Tick

SpecGrok == Init /\ [][NextGrok]_vars

\* the conversation log of the OpenRouter module: the sends that fill it and
\* the handlers that reset it, with the clock running
NextLog ==
    \/ \E k \in ApiKeys : InitializeModel(k, "openrouter")
    \/ \E c \in Calls : InitResume(c, "null")
    \/ \E ok \in BOOLEAN : Send("text", JSStr(<<"a", " ">>), "openrouter", ok)
    \/ \E c \in Calls, resp \in PlainResponses : SendComplete(c, resp)
    \/ \E mt \in ModelTypes : StartNewSession(mt)
    \/ \E c \in Calls, later \in BOOLEAN : StartNewSessionResume(c, later)
    \/ PrefixStartNewSession
    \/ \E mt \in ModelTypes : GetCurrentSession(mt)
    \/ \E c \in Calls : GetCurrentSessionResume(c)
    \/ PrefixGetCurrentSession
    \/ \E k \in {JSStr(<<"k">>), JSStr(<<"j">>)} : DirectReconnect(k, DefaultModel)
    \/ CloseStart("closed")
    \/ Tick

SpecLog == Init /\ [][NextLog]_vars

\* no handler invocation is pending
Quiet == \A c \in Calls : calls[c].pc = "idle"

\* the conversation log under every operation that reads or writes it, in any
\* order: the exported saveConversationTurn and initializeNewSession
\* (openrouter-start-new-session), initialize, reconnection, sends and the closes
NextSave ==
    \/ InitializeModel(JSStr(<<"k">>), "openrouter")
    \/ \E c \in Calls : InitResume(c, "null")
    \/ \E t \in DirectSaveArgs : DirectSaveConversationTurn(t)
    \/ PrefixStartNewSession
    \/ DirectReconnect(JSStr(<<"k">>), DefaultModel)
    \/ \E h \in Handles : DirectSend("dtext", JSStr(<<"a">>), h)
    \/ \E c \in Calls, resp \in PlainResponses : SendComplete(c, resp)
    \/ CloseStart("closed")
    \/ PrefixClose
    \/ Tick

SpecSave == Init /\ [][NextSave]_vars

\* initialize-model beside a close-session that is invoked only while no handler
\* is pending: a close-session pending next to an initialize-model was invoked
\* before that initialize-model began
NextCloseRace ==
    \/ \E mt \in {"gemini", "openrouter"} : InitializeModel(JSStr(<<"k">>), mt)
    \/ \E c \in Calls : InitResume(c, "null")
    \/ \E c \in Calls : GeminiConnected(c)
    \/ Quiet /\ \E o \in CloseOutcomes : CloseStart(o)
    \/ \E c \in Calls : CloseResume(c)

SpecCloseRace == Init /\ [][NextCloseRace]_vars

\* every operation of the boundary, invoked one after the other, each with
\* well-formed and malformed inputs
NextBoundary ==
    \/ Quiet /\ \E k \in ApiKeys, mt \in ModelTypes : InitializeModel(k, mt)
    \/ \E c \in Calls, rm \in {"null", "throws"} : InitResume(c, rm)
    \/ \E c \in Calls : GeminiConnected(c)
    \/ Quiet /\ \E t \in Texts, mt \in ModelTypes, ok \in BOOLEAN : Send("text", t, mt, ok)
    \/ Quiet /\ \E d \in ImageDatas, mt \in ModelTypes, ok \in BOOLEAN : Send("image", d, mt, ok)
    \/ \E c \in Calls, resp \in PlainResponses : SendComplete(c, resp)
    \/ Quiet /\ \E d \in AudioDatas, mt \in ModelTypes, ok \in BOOLEAN :
                    SendAudio("audio", d, mt, ok)
    \/ Quiet /\ \E op \in PayloadOps \ {"mic"} : SendNoPayload(op)
    \/ Quiet /\ \E o \in CloseOutcomes : CloseStart(o)
    \/ \E c \in Calls : CloseResume(c)
    \/ Quiet /\ \E mt \in ModelTypes : GetCurrentSession(mt)
    \/ \E c \in Calls : GetCurrentSessionResume(c)
    \/ Quiet /\ \E mt \in ModelTypes : StartNewSession(mt)
    \/ \E c \in Calls : StartNewSessionResume(c, FALSE)

SpecBoundary == Init /\ [][NextBoundary]_vars

\* the sends of the three providers with backend requests that fail
NextSendFail ==
    \/ \E mt \in ModelTypes : InitializeModel(JSStr(<<" ", "k">>), mt)
    \/ \E c \in Calls : InitResume(c, "null")
    \/ \E c \in Calls : GeminiConnected(c)
    \/ \E op \in {"text", "image"}, mt \in ModelTypes, ok \in BOOLEAN :
            Send(op, JSStr(Blocks(27)), mt, ok)
    \/ \E c \in Calls, resp \in PlainResponses : SendComplete(c, resp)
    \/ GrokInitialize(JSStr(<<"k">>))
    \/ \E ok \in BOOLEAN : GrokConnected(ok, 1)
    \/ \E op \in GrokSendOps, arg \in GrokSendArgs : GrokSend(op, arg)
    \/ \E c \in Calls, ok \in BOOLEAN : GrokSendComplete(c, ok)

SpecSendFail == Init /\ [][NextSendFail]_vars

\* ------------------------------------------------------------- claims
\* C1: initialize-model called with a missing, non-string, empty or whitespace-only
\* apiKey returns {success:false} at once; no adapter initialize is called and no
\* slot, session object, conversation log or reconnection state changes
C1_InvalidKeyRejected ==
    [][\A k \in ApiKeys, mt \in ModelTypes :
          (/\ k.t # "string" \/ \A i \in 1..Len(k.s) : k.s[i] = " "
           /\ returned'.op = "init" \/ \E c \in Calls : calls[c].pc = "idle" /\ calls'[c].op = "init"
           /\ InitializeModel(k, mt))
          => /\ returned'.op = "init"
             /\ ~returned'.res.success
             /\ returned'.reqs = 0
             /\ returned'.out = <<>>
             /\ UNCHANGED <<calls, slotVars, orVars, gemVars>>]_vars

\* an initialize-model with a whitespace-only key returned while a session is held
C1_Witness ==
    /\ returned.op = "init"
    /\ returned.res = Fail(ErrInvalidKey)
    /\ openRouterSessionRef # NoHandle
    /\ lastSessionParams.set

\* C2: send-text-message / send-image-content with a valid argument, when the slot of
\* the selected provider holds no active session, returns the not-active failure,
\* issues no backend request and changes nothing
C2_SendWithoutSessionFails ==
    [][\A op \in {"text", "image"}, arg \in Texts \cup ImageDatas,
          mt \in ModelTypes, ok \in BOOLEAN :
          (/\ arg.t = "string" /\ \E i \in 1..Len(arg.s) : arg.s[i] # " "
           /\ IF mt = "openrouter"
              THEN openRouterSessionRef = NoHandle \/ ~heap[openRouterSessionRef].active
              ELSE geminiSessionRef = NoHandle
           /\ \/ returned'.op = op /\ returned'.mt = mt
              \/ \E c \in Calls : calls[c].pc = "idle" /\ calls'[c].op = op
           /\ Send(op, arg, mt, ok))
          => /\ returned'.op = op
             /\ returned'.res \in {Fail(ErrNoOpenRouter), Fail(ErrNoGemini)}
             /\ returned'.reqs = 0
             /\ returned'.appended = 0
             /\ returned'.out = <<>>
             /\ UNCHANGED <<calls, slotVars, orVars, gemVars>>]_vars

\* a send-image-content for openrouter was refused as not active while the Gemini
\* slot holds a session
C2_Witness ==
    /\ returned.op = "image"
    /\ returned.mt = "openrouter"
    /\ returned.res = Fail(ErrNoOpenRouter)
    /\ geminiSessionRef # NoHandle

\* C3: with openrouter selected, send-audio-content and send-mic-audio-content
\* return the failure whose message says "not supported", in every state; they
\* issue no backend request and record no turn
C3_AudioUnsupportedOnOpenRouter ==
    [][(returned'.op \in AudioOps /\ returned'.mt = "openrouter")
          => /\ returned'.res = Fail("Audio input not supported with OpenRouter model.")
             /\ returned'.reqs = 0
             /\ returned'.appended = 0
             /\ UNCHANGED <<calls, slotVars, orVars, gemVars>>]_vars

\* the gate refused a microphone chunk while both slots hold usable sessions
C3_Witness ==
    /\ returned.op = "mic"
    /\ returned.mt = "openrouter"
    /\ ~returned.res.success
    /\ openRouterSessionRef # NoHandle
    /\ geminiSessionRef # NoHandle
    /\ gheap[geminiSessionRef] = "open"

\* C4: every send-text-message / send-image-content to openrouter that returns
\* {success:true} appended exactly one turn to the conversation history, and every
\* one that returns {success:false} appended none
C4_SuccessAppendsOneTurn ==
    [][(returned'.op \in {"text", "image"} /\ returned'.mt = "openrouter")
          => Len(conversationHistory') =
                Len(conversationHistory) + (IF returned'.res.success THEN 1 ELSE 0)]_vars

\* C5: every turn of the conversation history has a response text that is
\* non-empty after trimming
C5_TurnsHaveResponseText ==
    \A i \in 1..Len(conversationHistory) :
        Trim(conversationHistory[i].ai_response) # <<>>

C7_CloseIsIdempotent ==
    returned.op \in {"close", "pclose"}
    => /\ returned.res.success
       /\ CloseOpenRouter(openRouterSessionRef, heap) = <<openRouterSessionRef, heap>>
       /\ returned.op = "pclose" => lastSessionParams = NoParams
       /\ (returned.op = "close" /\ geminiSessionRef # NoHandle)
          => \A o \in CloseOutcomes :
                /\ CloseGemini(geminiSessionRef, o # "closed") = geminiSessionRef
                /\ o # "threw" => gheap[geminiSessionRef] = "closed"

\* C8: when close-session ran while a send-text / send-image request of the session
\* in the slot was in flight, the session is inactive at once, and when the request
\* settles its result is discarded: no turn is appended and active stays false
C8_InFlightResultDiscarded ==
    [][/\ (returned'.op = "close" /\ openRouterSessionRef # NoHandle
           /\ geminiSessionRef = NoHandle)
          => ~heap'[openRouterSessionRef].active
       /\ \A c \in Calls :
             (/\ calls[c].pc = "post"
              /\ calls'[c].pc = "idle"
              /\ ~heap[calls[c].h].active)
             => /\ conversationHistory' = conversationHistory
                /\ returned'.appended = 0
                /\ ~heap'[calls[c].h].active]_vars

\* C9: an initialize-model for openrouter that began while an earlier one for the
\* same provider had not returned is rejected: it never returns {success:true}
C9_OverlappingInitializeRejected ==
    [][(returned'.op = "init" /\ returned'.mt = "openrouter" /\ returned'.overlap)
          => ~returned'.res.success]_vars

\* C10: with maxReconnectionAttempts = 3 the reconnection initializes made since
\* the last fresh initialize never exceed 3; the attempt counters stay within
\* 0..3; after the third failed attempt the supervisor is not waiting to retry but
\* Failed, with the terminal status pushed to the renderer
C10_ReconnectionBounded ==
    /\ maxReconnectionAttempts = 3
    /\ reconnectCalls <= maxReconnectionAttempts
    /\ geminiAttempts \in 0..maxReconnectionAttempts
    /\ reconnectionAttempts \in 0..maxReconnectionAttempts
    /\ geminiStatus = "Disconnected" => geminiAttempts < maxReconnectionAttempts
    /\ geminiStatus = "Failed"
       => geminiNotice = "failed" /\ reconnectCalls = maxReconnectionAttempts

\* the third reconnection attempt failed and the supervisor gave up
C10_Witness ==
    /\ geminiStatus = "Failed"
    /\ reconnectCalls = 3
    /\ geminiNotice = "failed"
    /\ ~geminiInitializing

C12_NewSessionHasNewId ==
    [][(returned'.op = "start-new-session" /\ returned'.mt = "openrouter")
       => /\ conversationHistory' = <<>>
          /\ currentSessionId' # returned'.seen
      ]_vars

\* C13: the sessionId start-new-session returns is the id of the new log: it is the
\* sessionId a get-current-session of the same provider reports right after it
C13_ReturnedIdIsLogId ==
    [][(/\ returned'.op \in {"start-new-session", "openrouter-start-new-session"}
        /\ returned'.mt = "openrouter")
       => returned'.sessionId = GetCurrentSessionData'.sessionId
      ]_vars

\* C14: every boundary operation (initialize-model, send-text-message,
\* send-image-content, send-audio-content, close-session, get-current-session,
\* start-new-session) completes by returning a {success, ...} object, whatever its
\* input and whatever the adapter or the backend did: the handler never throws or
\* rejects, and a failure carries an error message
C14_BoundaryNeverThrows ==
    [][returned'.op \in {"init", "text", "image", "audio", "close",
                         "get-current-session", "start-new-session"}
       => /\ returned'.pc = "done"
          /\ returned'.res.success \in BOOLEAN
          /\ ~returned'.res.success => returned'.res.error # ""
      ]_vars

\* C15: send-text-message with a text that is missing, not a string, empty or made
\* of whitespace only returns {success:false} whatever the provider and the state
\* of the sessions; the provider is not resolved, no backend request is issued, no
\* turn is appended and nothing changes
C15_BlankTextRejected ==
    [][\A t \in Texts, mt \in ModelTypes, ok \in BOOLEAN :
          (/\ t.t # "string" \/ \A i \in 1..Len(t.s) : t.s[i] = " "
           /\ \/ returned'.op = "text"
              \/ \E c \in Calls : calls[c].pc = "idle" /\ calls'[c].op = "text"
           /\ Send("text", t, mt, ok))
          => /\ returned'.op = "text"
             /\ returned'.pc = "done"
             /\ returned'.res = Fail(ErrInvalidText)
             /\ returned'.mt = ""
             /\ returned'.reqs = 0
             /\ returned'.appended = 0
             /\ returned'.out = <<>>
             /\ UNCHANGED <<calls, slotVars, orVars, gemVars>>]_vars

\* a send-text-message was refused for its text while both providers hold a
\* session that would have taken it
C15_Witness ==
    /\ returned.op = "text"
    /\ returned.res = Fail(ErrInvalidText)
    /\ openRouterSessionRef # NoHandle
    /\ heap[openRouterSessionRef].active
    /\ geminiSessionRef # NoHandle
    /\ gheap[geminiSessionRef] = "open"

\* C16: send-image-content with a payload below the size threshold returns
\* {success:false} and issues no backend request, whichever provider is selected,
\* when that provider holds an active session
C16_SmallImageRejected ==
    [][\A d \in ImageDatas, mt \in ModelTypes, ok \in BOOLEAN :
          (/\ d.t = "string" /\ d.s # <<>>
           /\ Base64Bytes(d.s) < MinImageBytes
           /\ IF mt = "openrouter"
              THEN openRouterSessionRef # NoHandle /\ heap[openRouterSessionRef].active
              ELSE geminiSessionRef # NoHandle /\ gheap[geminiSessionRef] = "open"
           /\ \/ returned'.op = "image"
              \/ \E c \in Calls : calls[c].pc = "idle" /\ calls'[c].op = "image"
           /\ Send("image", d, mt, ok))
          => /\ returned'.op = "image"
             /\ ~returned'.res.success
             /\ returned'.reqs = 0]_vars

\* C17: get-current-session returns the session id and the history of the log of
\* the provider selected for the call and changes nothing; the history it returns
\* is the sequence of the turns recorded since the log was last reset, in the
\* order of their recording: the log changes only by a reset emptying it or by a
\* send appending its turn at the end
C17_GetCurrentSessionReturnsLog ==
    [][/\ returned'.op = "get-current-session" =>
            /\ returned'.res = Ok
            /\ IF returned'.mt = "openrouter"
               THEN /\ returned'.sessionId = currentSessionId
                    /\ returned'.history = conversationHistory
               ELSE returned'.sessionId = GeminiSessionId
            /\ UNCHANGED <<slotVars, orVars, gemVars, clock, grok>>
       /\ conversationHistory' # conversationHistory =>
            \/ /\ conversationHistory' = <<>>
               /\ returned'.op \in {"init", "start-new-session",
                                    "openrouter-start-new-session"}
            \/ /\ returned'.op \in SendOps
               /\ returned'.appended = 1
               /\ conversationHistory' =
                      Append(conversationHistory, conversationHistory'[Len(conversationHistory')])
      ]_vars

\* get-current-session returned two turns, the earlier one first
C17_Witness ==
    /\ returned.op = "get-current-session"
    /\ returned.mt = "openrouter"
    /\ Len(returned.history) = 2
    /\ returned.history[1].timestamp < returned.history[2].timestamp

\* C18: an initialize with isReconnection = true leaves the session id and the
\* history of the conversation log, the reconnection attempt counter and
\* lastSessionParams as they were; of the initialize calls only one with
\* isReconnection = false changes the counter or lastSessionParams
C18_ReconnectionKeepsLogAndParams ==
    [][/\ returned'.op = "reconnect" =>
            /\ returned'.res = Ok
            /\ UNCHANGED <<currentSessionId, conversationHistory,
                           reconnectionAttempts, lastSessionParams>>
       /\ (\/ lastSessionParams' # lastSessionParams
           \/ reconnectionAttempts' # reconnectionAttempts) => returned'.op = "init"
      ]_vars

\* a reconnection initialize with another key ran at a later time on a log that
\* holds a turn
C18_Witness ==
    /\ returned.op = "reconnect"
    /\ returned.res = Ok
    /\ Len(conversationHistory) > 0
    /\ currentSessionId # NumberToString(clock)
    /\ lastSessionParams.set
    /\ heap[returned.h].apiKey # lastSessionParams.apiKey

\* C19: lastSessionParams, which hold the API key, are kept only while the session
\* is active: after every explicit close, by close-session as by
\* openrouter-close-session, they are null
C19_CloseClearsLastParams ==
    [][returned'.op \in {"close", "pclose"} => lastSessionParams' = NoParams]_vars

\* C20: initialize-model and the send handlers write only the slot of the provider
\* selected for the call: every step of such a call leaves the other provider's
\* slot and session objects as they were, and a call refused before the provider
\* is resolved leaves both
C20_OtherSlotUntouched ==
    [][\A mt \in ModelTypes \cup {""} :
          (\/ returned'.op \in {"init"} \cup SendOps \cup AudioOps /\ returned'.mt = mt
           \/ \E c \in Calls : /\ calls'[c] # calls[c]
                                /\ calls'[c].op \in {"init"} \cup SendOps \cup AudioOps
                                /\ calls'[c].mt = mt)
          => /\ mt # "openrouter" => UNCHANGED <<openRouterSessionRef, heap>>
             /\ mt # "gemini" => UNCHANGED <<geminiSessionRef, gheap>>]_vars

\* initialize-model for gemini succeeded while the OpenRouter slot holds an
\* active session
C20_Witness ==
    /\ returned.op = "init"
    /\ returned.mt = "gemini"
    /\ returned.res = Ok
    /\ geminiSessionRef = returned.h
    /\ openRouterSessionRef # NoHandle
    /\ heap[openRouterSessionRef].active

\* C21: a send whose backend request failed is reported as {success:false, error}
\* by the handler of every provider, the Grok module included: no send handler
\* returns {success:true} for a call whose request failed
C21_FailedRequestReported ==
    [][/\ \A c \in Calls, resp \in PlainResponses :
            (calls[c].pc = "post" /\ resp.kind = "error" /\ SendComplete(c, resp))
            => ~returned'.res.success /\ returned'.res.error # ""
       /\ \A op \in {"text", "image"} :
            (/\ returned'.op = op /\ returned'.mt = "gemini" /\ returned'.reqs = 1
             /\ Send(op, JSStr(Blocks(27)), "gemini", FALSE))
            => ~returned'.res.success /\ returned'.res.error # ""
       /\ \A c \in Calls :
            (calls[c].pc = "gpost" /\ GrokSendComplete(c, FALSE))
            => ~returned'.res.success /\ returned'.res.error # ""
      ]_vars

\* C22: a new conversation log starts in three cases only: a turn is saved while
\* there is no session id, start-new-session is called, or a non-reconnection
\* initialize succeeds; after such an initialize the log has a new session id and
\* an empty history, and no send, close, get-current-session or reconnection
\* initialize changes the session id otherwise
C22_NewLogOnlyInThreeCases ==
    [][/\ (returned'.op = "init" /\ returned'.res = Ok /\ returned'.mt = "openrouter")
            => /\ currentSessionId' # currentSessionId
               /\ conversationHistory' = <<>>
       /\ currentSessionId' # currentSessionId
            => \/ returned'.op = "init" /\ returned'.res = Ok
               \/ returned'.op \in {"start-new-session", "openrouter-start-new-session"}
               \/ /\ returned'.op \in SendOps
                  /\ returned'.appended = 1
                  /\ ~Truthy(currentSessionId)
      ]_vars

\* C23: the conversation history is append-only between resets of the log: every
\* step other than a reset (start-new-session, non-reconnection initialize) leaves
\* the history it found as a prefix of the history after it
C23_HistoryAppendOnly ==
    [][returned'.op \notin {"init", "start-new-session", "openrouter-start-new-session"}
       => /\ Len(conversationHistory') >= Len(conversationHistory)
          /\ SubSeq(conversationHistory', 1, Len(conversationHistory)) = conversationHistory
      ]_vars

\* a send appended its turn behind a turn recorded at an earlier time
C23_Witness ==
    /\ returned.op \in SendOps
    /\ returned.appended = 1
    /\ Len(conversationHistory) = 2
    /\ conversationHistory[1].timestamp < clock

\* C24: a successful send-text-message or send-image-content forwards the reply to
\* the notification sink and to the conversation log: the call emitted an
\* update-response carrying the reply and appended a turn holding that reply (as
\* saved, trimmed); a call that fails emitted no update-response
C24_ReplyForwardedToLogAndSink ==
    [][(returned'.op \in {"text", "image"} /\ returned'.mt = "openrouter")
       => IF returned'.res.success
          THEN /\ returned'.appended = 1
               /\ conversationHistory' # <<>>
               /\ \E i \in 1..Len(returned'.out) :
                     /\ returned'.out[i].ch = "update-response"
                     /\ IsString(returned'.out[i].data)
                     /\ conversationHistory'[Len(conversationHistory')].ai_response
                            = Trim(returned'.out[i].data.s)
          ELSE \A i \in 1..Len(returned'.out) : returned'.out[i].ch # "update-response"
      ]_vars

\* C25: every recorded turn holds as input the text that was sent, or the
\* placeholder "[Image sent]" for an image, and as response the reply the backend
\* returned for that request
C25_TurnHoldsInputAndReply ==
    [][\A c \in Calls, resp \in PlainResponses :
          (/\ returned'.appended = 1
           /\ calls[c].pc = "post"
           /\ SendComplete(c, resp))
          => LET turn == conversationHistory'[Len(conversationHistory')]
             IN  /\ Len(conversationHistory') = Len(conversationHistory) + 1
                 /\ turn.transcription = IF calls[c].op \in {"image", "dimage"}
                                         THEN ImagePlaceholder ELSE calls[c].arg.s
                 /\ turn.ai_response = resp.content.s
      ]_vars

\* C25, amended: every recorded turn holds as input the text that was sent, or the
\* placeholder "[Image sent]" for an image, and as response the reply the backend
\* returned for that request, both without their leading and trailing whitespace
C25_TurnHoldsTrimmedInputAndReply ==
    [][\A c \in Calls, resp \in PlainResponses :
          (/\ returned'.appended = 1
           /\ calls[c].pc = "post"
           /\ SendComplete(c, resp))
          => LET turn == conversationHistory'[Len(conversationHistory')]
             IN  /\ Len(conversationHistory') = Len(conversationHistory) + 1
                 /\ turn.transcription = IF calls[c].op \in {"image", "dimage"}
                                         THEN ImagePlaceholder ELSE Trim(calls[c].arg.s)
                 /\ turn.ai_response = Trim(resp.content.s)
      ]_vars

\* an image send recorded its turn: the placeholder and the reply "b " as "b"
C25_Witness ==
    /\ returned.op = "image"
    /\ returned.appended = 1
    /\ conversationHistory # <<>>
    /\ conversationHistory[Len(conversationHistory)].transcription = ImagePlaceholder
    /\ conversationHistory[Len(conversationHistory)].ai_response = <<"b">>

\* C26: every save-conversation-turn notification carries the session id current
\* when the turn is appended (a string, never null), the turn just appended, and
\* the history with that turn last; within one session id the notified turn is the
\* next position of the history, one notification per appended turn
C26_SaveNotificationMatchesLog ==
    [][\A i \in 1..Len(returned'.out) :
          returned'.out[i].ch = "save-conversation-turn"
          => LET n == returned'.out[i]
             IN  /\ IsString(n.sessionId)
                 /\ n.sessionId = currentSessionId'
                 /\ n.len = Len(conversationHistory')
                 /\ n.len >= 1
                 /\ n.turn = conversationHistory'[n.len]
                 /\ n.len = IF n.sessionId = currentSessionId
                            THEN Len(conversationHistory) + 1 ELSE 1
                 /\ returned'.appended = 1
                 /\ \A j \in 1..Len(returned'.out) :
                        returned'.out[j].ch = "save-conversation-turn" => j = i
      ]_vars

\* the second turn of a session was notified
C26_Witness ==
    /\ Len(conversationHistory) = 2
    /\ \E i \in 1..Len(returned.out) :
          /\ returned.out[i].ch = "save-conversation-turn"
          /\ returned.out[i].len = 2
          /\ returned.out[i].sessionId = currentSessionId

\* C27: whenever a provider slot holds an active session, lastSessionParams holds
\* the inputs of the initialize that created it, and lastSessionParams is never the
\* input of an initialize that failed: when a fresh initializeGrokSession fails,
\* lastSessionParams is not what that call was given
C27_LastParamsFromSuccessfulInitialize ==
    [][/\ (openRouterSessionRef' # NoHandle /\ heap'[openRouterSessionRef'].active)
          => lastSessionParams' = [set |-> TRUE,
                                   apiKey |-> heap'[openRouterSessionRef'].apiKey,
                                   model |-> heap'[openRouterSessionRef'].model]
       /\ (grok.pending = "fresh" /\ grok'.pending = "none" /\ grok'.ret = "false")
          => grok'.lastSessionParams # [set |-> TRUE, apiKey |-> grok.arg]
      ]_vars

\* C28: when cleanupAllSessions completes, both provider slots are empty and every
\* session that was held is destroyed (the stateless handle has active = false,
\* the streaming session is closed), whatever close() of the streaming session did
C28_CleanupDestroysEverySession ==
    [][returned'.op = "cleanup"
       => /\ geminiSessionRef' = NoHandle
          /\ openRouterSessionRef' = NoHandle
          /\ openRouterSessionRef # NoHandle => ~heap'[openRouterSessionRef].active
          /\ geminiSessionRef # NoHandle => gheap'[geminiSessionRef] = "closed"
      ]_vars

\* C29: the initialization-in-progress flag is never left stuck.  When an
\* initialize-model call for the stateless provider has finished, whether it
\* returned a session, a failure, or threw inside, isInitializingSession is false;
\* the call was not rejected as busy, since no initialize runs across a suspension;
\* and each session-initializing(true) it sent is followed by a
\* session-initializing(false)
C29_InitializingFlagNotStuck ==
    [][(returned'.op = "init" /\ returned'.mt = "openrouter")
       => /\ ~isInitializingSession'
          /\ returned'.res.error # ErrInitOpenRouter
          /\ \A i \in 1..Len(returned'.out) :
                returned'.out[i] = Notify("session-initializing", JSStr(<<"true">>))
                => \E j \in (i + 1)..Len(returned'.out) :
                      returned'.out[j] = Notify("session-initializing", JSStr(<<"false">>))
      ]_vars

\* C30: a close-session that was in flight when initialize-model began does not
\* discard the session that initialize-model created: when a close-session resumes
\* after the close() it awaited and the streaming slot holds a session that is
\* open, one written since that close() was called, the slot keeps it
C30_InFlightCloseKeepsNewSession ==
    [][(/\ \E c \in Calls : calls[c].pc = "gclosed" /\ calls'[c].pc = "idle"
        /\ geminiSessionRef # NoHandle
        /\ gheap[geminiSessionRef] = "open")
       => geminiSessionRef' = geminiSessionRef
      ]_vars

\* C31: for each provider at most one session handle is live: every session object
\* ever created is the one in its provider's slot, or has active = false
\* (stateless provider) or is closed (streaming provider)
C31_AtMostOneLiveHandle ==
    /\ \A h \in Handles :
          (heap[h].alloc /\ heap[h].active) => h = openRouterSessionRef
    /\ \A g \in GHandles :
          gheap[g] = "open" => g = geminiSessionRef

\* C32: when close-session returns, both provider slots are null, also when
\* close() of the streaming session threw; the failure does not keep the stateless
\* session from being deactivated either
C32_CloseEmptiesBothSlots ==
    [][returned'.op = "close"
       => /\ geminiSessionRef' = NoHandle
          /\ openRouterSessionRef' = NoHandle
          /\ openRouterSessionRef # NoHandle => ~heap'[openRouterSessionRef].active
      ]_vars

\* C33: an initialize that fails or is rejected leaves the session state as it
\* was before the call.  A failing initialize-model leaves both slots, the session
\* objects, lastSessionParams, reconnectionAttempts and the log unchanged; an
\* initialize-grok rejected as busy changes nothing; an initialize-grok whose
\* request fails leaves the references and the log unchanged and lastSessionParams
\* and reconnectionAttempts as the call found them
C33_FailedInitializeChangesNothing ==
    [][/\ (returned'.op = "init" /\ ~returned'.res.success)
          => /\ openRouterSessionRef' = openRouterSessionRef
             /\ geminiSessionRef' = geminiSessionRef
             /\ heap' = heap
             /\ lastSessionParams' = lastSessionParams
             /\ reconnectionAttempts' = reconnectionAttempts
             /\ currentSessionId' = currentSessionId
             /\ conversationHistory' = conversationHistory
       /\ (grok'.ret = "false" /\ grok'.pending = grok.pending)
          => grok' = [grok EXCEPT !.ret = "false"]
       /\ (grok'.ret = "false" /\ grok.pending = "fresh" /\ grok'.pending = "none")
          => /\ grok'.grokSessionRef = grok.grokSessionRef
             /\ grok'.globalRef = grok.globalRef
             /\ grok'.currentSessionId = grok.currentSessionId
             /\ grok'.conversationHistory = grok.conversationHistory
             /\ grok'.lastSessionParams = grok.found
             /\ grok'.reconnectionAttempts = grok.entry
      ]_vars

\* C34: every turn is stored in the log of the session under which its send was
\* issued: when a pending send appends its turn, the current session id is the
\* one that was current when the send was called
C34_TurnStoredUnderIssuingSession ==
    [][\A c \in Calls :
          (calls[c].pc = "post" /\ calls'[c].pc = "idle" /\ returned'.appended = 1)
          => currentSessionId' = calls[c].seen
      ]_vars

\* C35: with several sends to the stateless provider in flight, no turn is lost or
\* duplicated.  When the request of a pending send settles, a reply that is a
\* non-empty string appends exactly one turn at the end of the history, made of
\* that send's input and that reply (as saved, trimmed), and any other outcome
\* leaves the history as it is; the turns stored before stay in place, so the
\* history is in the order in which the replies completed
C35_ConcurrentSendsAppendInCompletionOrder ==
    [][\A c \in Calls, resp \in PlainResponses :
          (/\ calls[c].pc = "post"
           /\ calls'[c].pc = "idle"
           /\ SendComplete(c, resp))
          => IF resp.kind = "ok" /\ IsString(resp.content) /\ Truthy(resp.content)
             THEN /\ returned'.appended = 1
                  /\ conversationHistory' =
                        Append(conversationHistory,
                               [timestamp |-> clock,
                                transcription |-> IF calls[c].op \in {"image", "dimage"}
                                                  THEN ImagePlaceholder
                                                  ELSE Trim(calls[c].arg.s),
                                ai_response |-> Trim(resp.content.s)])
             ELSE /\ returned'.appended = 0
                  /\ conversationHistory' = conversationHistory
      ]_vars

\* one of two sends in flight has stored its turn while the other is still pending
C35_Witness ==
    /\ returned.op \in {"text", "image"}
    /\ returned.appended = 1
    /\ Len(conversationHistory) = 1
    /\ \E c \in Calls : calls[c].pc = "post" /\ calls[c].h = returned.h

\* C36: in every reachable state of the conversation log, a history that is not
\* empty has a current session id that is not null (a non-empty string): no turn
\* is stored while currentSessionId is null
C36_HistoryImpliesSessionId ==
    conversationHistory # <<>>
    => IsString(currentSessionId) /\ Truthy(currentSessionId)

\* saveConversationTurn, called before any initialize created a session object,
\* stored the first turn
C36_Witness ==
    /\ returned.op = "save"
    /\ returned.appended = 1
    /\ Allocated = {}
    /\ Len(conversationHistory) = 1
    /\ IsString(currentSessionId)
====
